---- MODULE Spec2Model ----
(***************************************************************************)
(* Model of mockfs/storage.py: the virtual file object `file`, its mode    *)
(* tables and the example backend `_store`.                                *)
(*                                                                         *)
(* Content is a sequence of units (characters or bytes; the model follows  *)
(* the Python 2 reading of the source, where str and bytes are one type).  *)
(* Arguments are well typed: names and modes are strings, sizes and        *)
(* offsets are integers or the DEFAULT sentinel.  The descriptor counter   *)
(* and the softspace flag are not modelled; no operation reads them.       *)
(* backend.DeleteFile is never called by the file class and is not an      *)
(* action of the model.                                                    *)
(***************************************************************************)
EXTENDS Integers, Sequences, FiniteSets, TLC

VARIABLES
  _store,   \* the backend mapping: name -> content, or NoFile when absent
  files,    \* the file objects, one record per object slot
  ret,      \* the last call made and its outcome (value returned, error raised)
  pc,       \* position of the write-then-read-back session (SpecSession)
  seen,     \* content the session's writer loaded at open
  text      \* concatenation of the data the session's writer wrote

vars == <<_store, files, ret, pc, seen, text>>

----------------------------------------------------------------------------
(* Bounds *)

NumHandles == 2     \* file objects alive at the same time
MaxLen == 2         \* longest content explored
MaxPos == 2         \* largest cursor explored
MaxText == 3        \* longest text written by the session's writer
PairMaxLen == 1     \* longest content explored with several objects
PairMaxPos == 1     \* largest cursor explored with several objects

Handles == 1 .. NumHandles

----------------------------------------------------------------------------
(* Units and Python string helpers *)

LF == "LF"
CR == "CR"
NUL == "NUL"

Min(a, b) == IF a < b THEN a ELSE b

\* s[i:j] for 0 <= i, 0 <= j
Slice(s, i, j) ==
  LET hi == Min(j, Len(s))
  IN IF i >= hi THEN << >> ELSE [k \in 1 .. (hi - i) |-> s[i + k]]

\* s[i:]
SliceFrom(s, i) == Slice(s, i, Len(s))

\* n * unit
Repeat(unit, n) == [k \in 1 .. n |-> unit]

RECURSIVE ReplaceCRLF(_)
\* s.replace('\r\n', '\n')
ReplaceCRLF(s) ==
  IF s = << >> THEN << >>
  ELSE IF Len(s) >= 2 /\ s[1] = CR /\ s[2] = LF
       THEN <<LF>> \o ReplaceCRLF(SliceFrom(s, 2))
       ELSE <<s[1]>> \o ReplaceCRLF(Tail(s))

RECURSIVE ReplaceLF(_)
\* s.replace('\n', '\r\n')
ReplaceLF(s) ==
  IF s = << >> THEN << >>
  ELSE IF s[1] = LF
       THEN <<CR, LF>> \o ReplaceLF(Tail(s))
       ELSE <<s[1]>> \o ReplaceLF(Tail(s))

\* a find that returns the index of the last LF
Find_Last(s) ==
  IF \E k \in 1 .. Len(s) : s[k] = LF
  THEN (CHOOSE k \in 1 .. Len(s) : s[k] = LF /\ \A j \in (k + 1) .. Len(s) : s[j] # LF) - 1
  ELSE -1

\* s.find('\n'): 0-based index of the first LF, -1 when there is none
Find(s) ==
  IF \E k \in 1 .. Len(s) : s[k] = LF
  THEN (CHOOSE k \in 1 .. Len(s) : s[k] = LF /\ \A j \in 1 .. (k - 1) : s[j] # LF) - 1
  ELSE -1

----------------------------------------------------------------------------
(* Mode tables.  A mode string is the sequence of its characters. *)

READ_MODES0 == { <<"r">>, <<"r", "b">>, <<"r", "U">> }
WRITE_MODES0 == { <<"w">>, <<"w", "b">>, <<"a">>, <<"a", "b">> }
MIXED_MODES == { <<"r", "+">>, <<"r", "+", "b">>, <<"w", "+">>,
                 <<"w", "+", "b">>, <<"a", "+">>, <<"a", "+", "b">> }
\* a mode table that also lists "rw"
ALL_MODES_Lax ==
  READ_MODES0 \cup WRITE_MODES0 \cup MIXED_MODES \cup { <<"r", "w">> }

ALL_MODES == READ_MODES0 \cup WRITE_MODES0 \cup MIXED_MODES
READ_MODES == READ_MODES0 \cup MIXED_MODES
WRITE_MODES == WRITE_MODES0 \cup MIXED_MODES

\* mode.endswith('b')
EndsWithB(m) == m # << >> /\ m[Len(m)] = "b"
\* mode.startswith('a')
StartsWithA(m) == m # << >> /\ m[1] = "a"

\* An optional integer argument is << >> when omitted (the DEFAULT sentinel)
\* and <<n>> when n is given.  None and NoFile are no content.
DEFAULT == << >>
Given(n) == <<n>>
None == <<"None">>
NoFile == <<"NoFile">>

----------------------------------------------------------------------------
(* The backend *)

CheckForFile(st, filename) == st[filename] # NoFile
LoadFile(st, filename) == st[filename]
SaveFile(st, filename, data) == [st EXCEPT ![filename] = data]

----------------------------------------------------------------------------
(* Outcome of a method: the object, the store, the value and the error *)

Result(self, st, val, err) == [self |-> self, st |-> st, val |-> val, err |-> err]

NoObject ==
  [live |-> "none", name |-> "", mode |-> << >>, position |-> 0,
   closed |-> FALSE, binary |-> FALSE, data |-> << >>, in_iter |-> FALSE]

\* a load that keeps CRLF as it is stored
_open_read_Raw(self, st) ==
  IF ~CheckForFile(st, self.name)
  THEN Result(self, st, None, "IOError: No such file or directory")
  ELSE Result([self EXCEPT !.data = LoadFile(st, self.name)], st, None, "none")

_open_read(self, st) ==
  IF ~CheckForFile(st, self.name)
  THEN Result(self, st, None, "IOError: No such file or directory")
  ELSE LET data == LoadFile(st, self.name)
           norm == IF ~self.binary THEN ReplaceCRLF(data) ELSE data
       IN Result([self EXCEPT !.data = norm], st, None, "none")

\* an open for writing that keeps an entry that exists
_open_write_Keep(self, st) ==
  IF CheckForFile(st, self.name)
  THEN Result(self, st, None, "none")
  ELSE Result(self, SaveFile(st, self.name, << >>), None, "none")

\* SaveFile of the example backend never raises
_open_write(self, st) ==
  Result(self, SaveFile(st, self.name, << >>), None, "none")

_open_append(self, st) ==
  IF CheckForFile(st, self.name)
  THEN LET r == _open_read(self, st)
       IN Result([r.self EXCEPT !.position = Len(r.self.data)], r.st, None, r.err)
  ELSE _open_write(self, st)

\* file.__init__: the attributes are set before the mode and name checks
__init__(name, mode, st) ==
  LET self == [live |-> "failed", name |-> name, mode |-> mode, position |-> 0,
               closed |-> FALSE, binary |-> EndsWithB(mode), data |-> << >>,
               in_iter |-> FALSE]
      opened(r) == IF r.err = "none"
                   THEN Result([r.self EXCEPT !.live = "ok"], r.st, None, "none")
                   ELSE r
  IN IF mode \notin ALL_MODES
     THEN Result(self, st, None, "ValueError: unsupported mode")
     ELSE IF name = ""
     THEN Result(self, st, None, "IOError: No such file or directory")
     ELSE IF mode \in READ_MODES /\ mode[1] \notin {"a", "w"}
     THEN opened(_open_read(self, st))
     ELSE IF mode \in WRITE_MODES
     THEN IF StartsWithA(mode)
          THEN opened(_open_append(self, st))
          ELSE opened(_open_write(self, st))
     ELSE Result(self, st, None, "AssertionError")

\* a close that commits whatever the mode
close_AnyMode(self, st) ==
  IF self.closed
  THEN Result(self, st, None, "none")
  ELSE Result([self EXCEPT !.closed = TRUE], SaveFile(st, self.name, self.data),
              None, "none")

\* a close that commits on every call
close_Again(self, st) ==
  LET c == [self EXCEPT !.closed = TRUE]
  IN IF self.mode \in WRITE_MODES
     THEN Result(c, SaveFile(st, self.name, self.data), None, "none")
     ELSE Result(c, st, None, "none")

close(self, st) ==
  IF self.closed
  THEN Result(self, st, None, "none")
  ELSE LET c == [self EXCEPT !.closed = TRUE]
       IN IF self.mode \in WRITE_MODES
          THEN Result(c, SaveFile(st, self.name, self.data), None, "none")
          ELSE Result(c, st, None, "none")

\* file.__del__ runs close(); the object is gone afterwards
__del__(self, st) ==
  LET r == close(self, st)
  IN Result(NoObject, r.st, None, r.err)

\* a read that reloads from the store at every cursor
read_AlwaysReload(self, st, size) ==
  IF self.mode \notin READ_MODES
  THEN Result(self, st, None, "IOError: Bad file descriptor")
  ELSE IF self.closed
  THEN Result(self, st, None, "ValueError: closed file")
  ELSE IF self.in_iter
  THEN Result(self, st, None, "ValueError: mixing iteration and read")
  ELSE LET pos == self.position
           r == IF self.mode \notin WRITE_MODES
                THEN _open_read(self, st)
                ELSE Result(self, st, None, "none")
       IN IF r.err # "none" THEN r
          ELSE LET n == IF size = DEFAULT THEN Len(r.self.data)
                        ELSE IF size[1] < 0 THEN Len(r.self.data) ELSE size[1]
                   data == Slice(r.self.data, pos, pos + n)
               IN Result([r.self EXCEPT !.position = @ + Len(data)], st, data, "none")

\* a read that advances the cursor by the size asked for
read_Overrun(self, st, size) ==
  IF self.mode \notin READ_MODES
  THEN Result(self, st, None, "IOError: Bad file descriptor")
  ELSE IF self.closed
  THEN Result(self, st, None, "ValueError: closed file")
  ELSE IF self.in_iter
  THEN Result(self, st, None, "ValueError: mixing iteration and read")
  ELSE LET pos == self.position
           r == IF pos = 0 /\ self.mode \notin WRITE_MODES
                THEN _open_read(self, st)
                ELSE Result(self, st, None, "none")
       IN IF r.err # "none" THEN r
          ELSE LET n == IF size = DEFAULT THEN Len(r.self.data)
                        ELSE IF size[1] < 0 THEN Len(r.self.data) ELSE size[1]
                   data == Slice(r.self.data, pos, pos + n)
               IN Result([r.self EXCEPT !.position = @ + n], st, data, "none")

\* size argument of read(): DEFAULT or negative reads to the end
read(self, st, size) ==
  IF self.mode \notin READ_MODES
  THEN Result(self, st, None, "IOError: Bad file descriptor")
  ELSE IF self.closed
  THEN Result(self, st, None, "ValueError: closed file")
  ELSE IF self.in_iter
  THEN Result(self, st, None, "ValueError: mixing iteration and read")
  ELSE LET pos == self.position
           r == IF pos = 0 /\ self.mode \notin WRITE_MODES
                THEN _open_read(self, st)
                ELSE Result(self, st, None, "none")
       IN IF r.err # "none" THEN r
          ELSE LET n == IF size = DEFAULT THEN Len(r.self.data)
                        ELSE IF size[1] < 0 THEN Len(r.self.data) ELSE size[1]
                   data == Slice(r.self.data, pos, pos + n)
               IN Result([r.self EXCEPT !.position = @ + Len(data)], st, data, "none")

\* a write that inserts instead of overwriting
WriteData_Insert(old, position, data) ==
  LET start == Slice(old, 0, position)
      padding == Repeat(NUL, position - Len(start))
      end == SliceFrom(old, position)
  IN [data |-> start \o padding \o data \o end, position |-> position + Len(data)]

\* the content and cursor after write(data) at `position`
WriteData(old, position, data) ==
  LET start == Slice(old, 0, position)
      padding == Repeat(NUL, position - Len(start))
      end == SliceFrom(old, position + Len(data))
  IN [data |-> start \o padding \o data \o end, position |-> position + Len(data)]

\* a write that saves to the store at once
write_Through(self, st, data) ==
  IF self.mode \notin WRITE_MODES
  THEN Result(self, st, None, "IOError: Bad file descriptor")
  ELSE IF self.closed
  THEN Result(self, st, None, "ValueError: closed file")
  ELSE IF data = << >>
  THEN Result(self, st, None, "none")
  ELSE LET d == IF self.binary THEN data ELSE ReplaceLF(data)
           w == WriteData(self.data, self.position, d)
       IN Result([self EXCEPT !.data = w.data, !.position = w.position],
                 SaveFile(st, self.name, w.data), None, "none")

write(self, st, data) ==
  IF self.mode \notin WRITE_MODES
  THEN Result(self, st, None, "IOError: Bad file descriptor")
  ELSE IF self.closed
  THEN Result(self, st, None, "ValueError: closed file")
  ELSE IF data = << >>
  THEN Result(self, st, None, "none")
  ELSE LET d == IF self.binary THEN data ELSE ReplaceLF(data)
           w == WriteData(self.data, self.position, d)
       IN Result([self EXCEPT !.data = w.data, !.position = w.position],
                 st, None, "none")

\* a seek that moves to the start when the target is negative
seek_Clamp(self, st, position, whence) ==
  IF ~(0 <= whence /\ whence <= 2)
  THEN Result(self, st, None, "IOError: Invalid argument")
  ELSE LET target == IF whence = 1 THEN self.position + position
                     ELSE IF whence = 2 THEN Len(self.data) + position
                     ELSE position
       IN Result([self EXCEPT !.in_iter = FALSE,
                              !.position = IF target < 0 THEN 0 ELSE target],
                 st, None, "none")

\* a seek that leaves the iteration flag as it is
seek_KeepIter(self, st, position, whence) ==
  IF ~(0 <= whence /\ whence <= 2)
  THEN Result(self, st, None, "IOError: Invalid argument")
  ELSE LET target == IF whence = 1 THEN self.position + position
                     ELSE IF whence = 2 THEN Len(self.data) + position
                     ELSE position
       IN IF target < 0
          THEN Result(self, st, None, "IOError: Invalid argument")
          ELSE Result([self EXCEPT !.position = target], st, None, "none")

seek(self, st, position, whence) ==
  IF ~(0 <= whence /\ whence <= 2)
  THEN Result(self, st, None, "IOError: Invalid argument")
  ELSE LET target == IF whence = 1 THEN self.position + position
                     ELSE IF whence = 2 THEN Len(self.data) + position
                     ELSE position
       IN IF target < 0
          THEN Result(self, st, None, "IOError: Invalid argument")
          ELSE Result([self EXCEPT !.in_iter = FALSE, !.position = target],
                      st, None, "none")

tell(self, st) == Result(self, st, self.position, "none")

flush(self, st) ==
  IF self.mode \notin WRITE_MODES
  THEN Result(self, st, None, "IOError: Bad file descriptor")
  ELSE Result(self, SaveFile(st, self.name, self.data), None, "none")

\* size argument of readline(): DEFAULT or negative means no limit
readline(self, st, size) ==
  IF self.mode \in WRITE_MODES
  THEN Result(self, st, None, "IOError: Bad file descriptor")
  ELSE IF self.position >= Len(self.data)
  THEN Result(self, st, << >>, "none")
  ELSE LET unlimited == size = DEFAULT \/ size[1] < 0
           sz == IF unlimited THEN 0 ELSE size[1]
           position == self.position
           remaining == SliceFrom(self.data, position)
           poz == Find(remaining)
       IN IF poz = -1
          THEN IF unlimited \/ sz > Len(remaining)
               THEN Result([self EXCEPT !.position = Len(self.data)],
                           st, remaining, "none")
               ELSE LET actual == Slice(remaining, 0, sz)
                    IN Result([self EXCEPT !.position = @ + Len(actual)],
                              st, actual, "none")
          ELSE IF unlimited
          THEN Result([self EXCEPT !.position = position + poz + 1],
                      st, Slice(remaining, 0, poz + 1), "none")
          ELSE LET actual == Slice(remaining, 0, poz + 1)
               IN IF Len(actual) <= sz
                  THEN Result([self EXCEPT !.position = @ + Len(actual)],
                              st, actual, "none")
                  ELSE Result([self EXCEPT !.position = @ + sz],
                              st, Slice(actual, 0, sz), "none")

\* a __next__ that signals exhaustion one unit before the end
next_StopEarly(self, st) ==
  IF self.mode \in WRITE_MODES
  THEN Result(self, st, None, "IOError: Bad file descriptor")
  ELSE LET it == [self EXCEPT !.in_iter = TRUE]
       IN IF self.position + 1 >= Len(self.data)
          THEN Result(it, st, None, "StopIteration")
          ELSE readline(it, st, DEFAULT)

\* file.__next__ (and its Python 2 alias next)
next(self, st) ==
  IF self.mode \in WRITE_MODES
  THEN Result(self, st, None, "IOError: Bad file descriptor")
  ELSE LET it == [self EXCEPT !.in_iter = TRUE]
       IN IF self.position >= Len(self.data)
          THEN Result(it, st, None, "StopIteration")
          ELSE readline(it, st, DEFAULT)

RECURSIVE Drain(_, _, _)
\* list(self): __next__ until StopIteration, collecting the lines
Drain(self, st, lines) ==
  LET r == next(self, st)
  IN IF r.err = "StopIteration" THEN Result(r.self, r.st, lines, "none")
     ELSE IF r.err # "none" THEN r
     ELSE Drain(r.self, r.st, Append(lines, r.val))

readlines(self, st, size) ==
  IF self.mode \in WRITE_MODES
  THEN Result(self, st, None, "IOError: Bad file descriptor")
  ELSE LET r == Drain(self, st, << >>)
       IN IF r.err # "none" THEN r
          ELSE Result([r.self EXCEPT !.in_iter = FALSE], r.st, r.val, "none")

\* a truncate that leaves the commit to flush and close
truncate_NoFlush(self, st, size) ==
  IF self.mode \in READ_MODES
  THEN Result(self, st, None, "IOError: Bad file descriptor")
  ELSE IF size # DEFAULT /\ size[1] < 0
  THEN Result(self, st, None, "IOError: Invalid argument")
  ELSE LET sz == IF size = DEFAULT THEN self.position ELSE size[1]
           data == Slice(self.data, 0, sz)
           t == [self EXCEPT !.data = data \o Repeat(NUL, sz - Len(data))]
       IN Result(t, st, None, "none")

\* size argument of truncate(): DEFAULT means the current position
truncate(self, st, size) ==
  IF self.mode \in READ_MODES
  THEN Result(self, st, None, "IOError: Bad file descriptor")
  ELSE IF size # DEFAULT /\ size[1] < 0
  THEN Result(self, st, None, "IOError: Invalid argument")
  ELSE LET sz == IF size = DEFAULT THEN self.position ELSE size[1]
           data == Slice(self.data, 0, sz)
           t == [self EXCEPT !.data = data \o Repeat(NUL, sz - Len(data))]
       IN flush(t, st)

RECURSIVE WriteEach(_, _, _)
\* for line in sequence: self.write(line)
WriteEach(self, st, sequence) ==
  IF sequence = << >> THEN Result(self, st, None, "none")
  ELSE LET r == write(self, st, Head(sequence))
       IN IF r.err # "none" THEN r
          ELSE WriteEach(r.self, r.st, Tail(sequence))

writelines(self, st, sequence) ==
  IF self.mode \notin WRITE_MODES
  THEN Result(self, st, None, "IOError: Bad file descriptor")
  ELSE WriteEach(self, st, sequence)


----------------------------------------------------------------------------------------------------------------------------------------
(* Inputs *)

Names == {"", "f"}
BadModes == { << >>, <<"r", "w">> }
OpenModes == ALL_MODES \cup BadModes
\* the units of the session's texts and initial contents
Units == {"a", LF, CR}
\* the data written with one object: every unit of a content is then a
\* written LF, the CR of its translation, or null padding
WriteInputs == { << >>, <<LF>> }
LineInputs == { << >>, << <<LF>> >>, << <<LF>>, << >>, <<LF>> >> }
SizeInputs == {DEFAULT} \cup { Given(n) : n \in -1 .. MaxLen }
OffsetInputs == -1 .. MaxPos
WhenceInputs == 0 .. 3

Call(op, h, r) == [op |-> op, h |-> h, val |-> r.val, err |-> r.err]

Apply(op, h, r) ==
  /\ files' = [files EXCEPT ![h] = r.self]
  /\ _store' = r.st
  /\ ret' = Call(op, h, r)

----------------------------------------------------------------------------
(* Actions: one per call a client can make on object slot h *)

Open(h, name, mode) ==
  /\ files[h].live = "none"
  /\ Apply("open", h, __init__(name, mode, _store))

Read(h, size) ==
  /\ files[h].live = "ok"
  /\ Apply("read", h, read(files[h], _store, size))

Write(h, data) ==
  /\ files[h].live = "ok"
  /\ Apply("write", h, write(files[h], _store, data))

Writelines(h, sequence) ==
  /\ files[h].live = "ok"
  /\ Apply("writelines", h, writelines(files[h], _store, sequence))

Close(h) ==
  /\ files[h].live = "ok"
  /\ Apply("close", h, close(files[h], _store))

\* the object is destroyed: after a failed open, or when the client drops it
Del(h) ==
  /\ files[h].live # "none"
  /\ Apply("del", h, __del__(files[h], _store))

Seek(h, position, whence) ==
  /\ files[h].live = "ok"
  /\ Apply("seek", h, seek(files[h], _store, position, whence))

Tell(h) ==
  /\ files[h].live = "ok"
  /\ Apply("tell", h, tell(files[h], _store))

Flush(h) ==
  /\ files[h].live = "ok"
  /\ Apply("flush", h, flush(files[h], _store))

NextLine(h) ==
  /\ files[h].live = "ok"
  /\ Apply("next", h, next(files[h], _store))

Readline(h, size) ==
  /\ files[h].live = "ok"
  /\ Apply("readline", h, readline(files[h], _store, size))

Readlines(h, size) ==
  /\ files[h].live = "ok"
  /\ Apply("readlines", h, readlines(files[h], _store, size))

Truncate(h, size) ==
  /\ files[h].live = "ok"
  /\ Apply("truncate", h, truncate(files[h], _store, size))

SessionIdle == pc = "off" /\ UNCHANGED <<pc, seen, text>>

\* contents and cursors stay within the explored bounds
Bounded(maxlen, maxpos) ==
  \A h \in Handles : Len(files[h].data) <= maxlen /\ files[h].position <= maxpos

\* every call on slot h, with the arguments drawn from the input sets I
Step(h, I) ==
  \/ \E name \in I.names, mode \in I.modes : Open(h, name, mode)
  \/ \E size \in I.sizes : Read(h, size)
  \/ \E data \in I.data : Write(h, data)
  \/ \E sequence \in I.lines : Writelines(h, sequence)
  \/ Close(h)
  \/ Del(h)
  \/ \E position \in I.offsets, whence \in I.whences : Seek(h, position, whence)
  \/ Tell(h)
  \/ Flush(h)
  \/ NextLine(h)
  \/ \E size \in I.sizes : Readline(h, size)
  \/ \E size \in I.sizes : Readlines(h, size)
  \/ \E size \in I.sizes : Truncate(h, size)

AllInputs ==
  [names |-> Names, modes |-> OpenModes, data |-> WriteInputs, lines |-> LineInputs,
   sizes |-> SizeInputs, offsets |-> OffsetInputs, whences |-> WhenceInputs]

\* two objects at a time: the text modes and rb, one name, one unit
PairInputs ==
  [names |-> {"f"},
   modes |-> { <<"r">>, <<"r", "b">>, <<"w">>, <<"a">>,
               <<"r", "+">>, <<"w", "+">>, <<"a", "+">> },
   data |-> { <<"a">> }, lines |-> { << <<"a">> >> },
   sizes |-> {DEFAULT, Given(1)}, offsets |-> {0, 1}, whences |-> {0, 2}]

Init ==
  /\ _store = [n \in Names |-> NoFile]
  /\ files = [h \in Handles |-> NoObject]
  /\ ret = [op |-> "none", h |-> 0, val |-> None, err |-> "none"]
  /\ pc = "off"
  /\ seen = << >>
  /\ text = << >>

\* one object at a time, every mode and argument
Next == SessionIdle /\ Step(1, AllInputs) /\ Bounded(MaxLen, MaxPos)'

Spec == Init /\ [][Next]_vars

\* several objects at a time
NextPair ==
  SessionIdle /\ (\E h \in Handles : Step(h, PairInputs)) /\ Bounded(PairMaxLen, PairMaxPos)'

SpecPair == Init /\ [][NextPair]_vars

----------------------------------------------------------------------------
(* The write-then-read-back session: slot 1 opens "f" for writing, writes  *)
(* in one or several calls and closes; then slot 2 opens "f" fresh for     *)
(* reading in the same text or binary flavour and reads all.  The store    *)
(* starts with "f" absent or holding any content a binary writer can have  *)
(* saved.                                                                  *)

Writer == CHOOSE h \in Handles : \A g \in Handles : h <= g
Reader == Writer + 1

RECURSIVE SeqsUpTo(_)
\* the sequences of units of length at most n
SeqsUpTo(n) ==
  IF n = 0 THEN { << >> }
  ELSE LET shorter == SeqsUpTo(n - 1)
       IN shorter \cup { Append(s, u) : s \in shorter, u \in Units }

InitSession ==
  /\ \E c \in SeqsUpTo(MaxText) \cup {NoFile} :
       _store = [n \in Names |-> IF n = "f" THEN c ELSE NoFile]
  /\ files = [h \in Handles |-> NoObject]
  /\ ret = [op |-> "none", h |-> 0, val |-> None, err |-> "none"]
  /\ pc = "start"
  /\ seen = << >>
  /\ text = << >>

SessionOpen ==
  /\ pc = "start"
  /\ \E mode \in WRITE_MODES : Open(Writer, "f", mode)
  /\ ret'.err = "none"
  /\ pc' = "writing"
  /\ seen' = files'[Writer].data
  /\ text' = text

SessionWrite ==
  /\ pc = "writing"
  /\ \E data \in SeqsUpTo(MaxText) :
       /\ Len(text) + Len(data) <= MaxText
       /\ Write(Writer, data)
       /\ text' = text \o data
  /\ UNCHANGED <<pc, seen>>

SessionClose ==
  /\ pc = "writing"
  /\ Close(Writer)
  /\ pc' = "closed"
  /\ UNCHANGED <<seen, text>>

SessionReopen ==
  /\ pc = "closed"
  /\ Open(Reader, "f", IF files[Writer].binary THEN <<"r", "b">> ELSE <<"r">>)
  /\ pc' = "reading"
  /\ UNCHANGED <<seen, text>>

SessionRead ==
  /\ pc = "reading"
  /\ Read(Reader, DEFAULT)
  /\ pc' = "done"
  /\ UNCHANGED <<seen, text>>

NextSession ==
  \/ SessionOpen
  \/ SessionWrite
  \/ SessionClose
  \/ SessionReopen
  \/ SessionRead

SpecSession == InitSession /\ [][NextSession]_vars

----------------------------------------------------------------------------
(* Vocabulary of the properties: the mode tokens as the specification      *)
(* partitions them, written out independently of the tables above.         *)

TwelveTokens ==
  { <<"r">>, <<"r", "b">>, <<"w">>, <<"w", "b">>, <<"a">>, <<"a", "b">>,
    <<"r", "+">>, <<"r", "+", "b">>, <<"w", "+">>, <<"w", "+", "b">>,
    <<"a", "+">>, <<"a", "+", "b">> }
MixedTokens ==
  { <<"r", "+">>, <<"r", "+", "b">>, <<"w", "+">>, <<"w", "+", "b">>,
    <<"a", "+">>, <<"a", "+", "b">> }
WriteCapable ==
  { <<"w">>, <<"w", "b">>, <<"a">>, <<"a", "b">> } \cup MixedTokens
ReadCapable == { <<"r">>, <<"r", "b">>, <<"r", "U">> } \cup MixedTokens

BadDescriptor == "IOError: Bad file descriptor"
ValueErrors == { "ValueError: closed file", "ValueError: mixing iteration and read" }

\* the object in slot h is a handle the client holds
IsHandle(h) == files[h].live = "ok"
IsOpen(h) == IsHandle(h) /\ ~files[h].closed

----------------------------------------------------------------------------
\* C1: once a handle is closed, every operation on it other than close
\* fails and changes neither the handle nor the Backend Store.
C1_ClosedHandleRejectsEverything ==
  [][\A h \in Handles :
       (IsHandle(h) /\ files[h].closed /\ ret'.h = h
          /\ ret'.op \in {"read", "write", "seek", "tell", "flush", "truncate",
                          "readline", "next", "readlines"})
       => (ret'.err # "none" /\ files'[h] = files[h] /\ _store' = _store)]_vars

----------------------------------------------------------------------------
----------------------------------------------------------------------------
\* C3: data written through one handle and not yet committed by it is never
\* returned by a read or readline on another handle and is never in the
\* Backend Store: a write or writelines on handle a changes only a's own
\* copy, and what a read or readline on b returns is cut from b's own copy,
\* which is the copy b had or the store entry b reloaded.
C3_UncommittedWritesArePrivate ==
  [][\A a \in Handles :
       /\ (ret'.h = a /\ ret'.op \in {"write", "writelines"})
          => (_store' = _store /\ \A b \in Handles \ {a} : files'[b] = files[b])
       /\ (ret'.h = a /\ ret'.op \in {"read", "readline"} /\ ret'.err = "none")
          => /\ _store' = _store
             /\ \A b \in Handles \ {a} : files'[b] = files[b]
             /\ files'[a].data \in {files[a].data, _store[files[a].name],
                                     ReplaceCRLF(_store[files[a].name])}
             /\ \E i \in 0 .. Len(files'[a].data) :
                  ret'.val = Slice(files'[a].data, i, i + Len(ret'.val))]_vars

\* C3 witness: b has read the committed (empty) content while a, open on the
\* same name, holds a written unit it has not committed
C3_Witness ==
  /\ ret.op = "read" /\ ret.err = "none" /\ ret.val = << >>
  /\ \E a \in Handles \ {ret.h} :
       /\ IsOpen(a) /\ files[a].name = files[ret.h].name
       /\ files[a].data = <<"a">>
       /\ _store[files[a].name] = << >>

----------------------------------------------------------------------------
\* C4: close is idempotent and commits exactly once: the first close of a
\* write-capable handle saves the handle's content under its name and marks
\* it closed; a later close, also the one made by destruction, raises no
\* error and leaves the store as it is.
C4_CloseCommitsOnce ==
  [][\A h \in Handles :
       (ret'.h = h /\ ret'.op \in {"close", "del"})
       => /\ ret'.err = "none"
          /\ ret'.op = "close" => files'[h] = [files[h] EXCEPT !.closed = TRUE]
          /\ _store' = IF ~files[h].closed /\ files[h].mode \in WriteCapable
                       THEN [_store EXCEPT ![files[h].name] = files[h].data]
                       ELSE _store]_vars

\* C4 witness: a closed write-capable handle has been closed again after
\* another handle committed different content under the same name
C4_Witness ==
  /\ ret.op = "close" /\ IsHandle(ret.h) /\ files[ret.h].closed
  /\ files[ret.h].mode \in WriteCapable
  /\ files[ret.h].data = <<"a">>
  /\ _store[files[ret.h].name] = << >>

----------------------------------------------------------------------------
\* C5: text round trip: a text written in one or several write calls
\* through a handle opened on the write path in text mode (w, w+, or a, a+
\* on a name without content) is, after close, what a fresh r open reads.
C5_TextRoundTrip ==
  (pc = "done" /\ ~files[Writer].binary
     /\ (files[Writer].mode \in { <<"w">>, <<"w", "+">> }
           \/ (files[Writer].mode \in { <<"a">>, <<"a", "+">> } /\ seen = << >>)))
  => (ret.op = "read" /\ ret.err = "none" /\ ret.val = text)

\* C5 witness: a text with CR, CRLF and LF has made the round trip
C5_Witness ==
  /\ pc = "done" /\ files[Writer].mode = <<"w">>
  /\ text = <<CR, LF, LF>> /\ ret.val = text
  /\ _store["f"] = <<CR, CR, LF, CR, LF>>

----------------------------------------------------------------------------
\* C6: a handle opened with a mixed token permits read, readline, line
\* iteration, readlines and write: none fails with a bad-descriptor error.
C6_MixedPermitsReadAndWrite ==
  [][\A h \in Handles :
       (IsOpen(h) /\ files[h].mode \in MixedTokens /\ ret'.h = h
          /\ ret'.op \in {"read", "readline", "next", "readlines", "write"})
       => ret'.err # BadDescriptor]_vars

----------------------------------------------------------------------------
\* C7: truncate fails with a bad-descriptor error exactly when the mode
\* lacks write capability; with a non-negative or omitted size it succeeds
\* on every write-capable mode.
C7_TruncateNeedsWriteCapability ==
  (ret.op = "truncate" /\ IsHandle(ret.h))
  => /\ ret.err = BadDescriptor <=> files[ret.h].mode \notin WriteCapable
     /\ (files[ret.h].mode \in WriteCapable /\ ret.err # "none")
        => ret.err = "IOError: Invalid argument"

----------------------------------------------------------------------------
\* a direct read() on h, called now, fails with a value error
ReadFails(h) == \A size \in SizeInputs : read(files[h], _store, size).err \in ValueErrors
\* a direct read() on h, called now, succeeds
ReadSucceeds(h) == \A size \in SizeInputs : read(files[h], _store, size).err = "none"

\* C8: on an open read-capable handle, after any line-iteration step (a
\* __next__ call that returned a line or signalled exhaustion, the steps
\* made by readlines included) and until a seek, read() fails with a value
\* error; after a seek, read() succeeds again.
C8_IterationBlocksReadUntilSeek ==
  [][\A h \in Handles :
       (IsOpen(h) /\ files[h].mode \in ReadCapable /\ ret'.h = h)
       => /\ (ret'.op \in {"next", "readlines"} /\ ret'.err \in {"none", "StopIteration"})
             => ReadFails(h)'
          /\ (ReadFails(h) /\ IsHandle(h)' /\ ~(ret'.op = "seek" /\ ret'.err = "none"))
             => ReadFails(h)'
          /\ (ret'.op = "seek" /\ ret'.err = "none" /\ IsOpen(h)')
             => ReadSucceeds(h)']_vars

\* C8 (amended): on an open read-capable handle, after a __next__ call made
\* by the client (it returned a line or signalled exhaustion) and until a
\* seek or a readlines call, read() fails with a value error; readlines
\* clears the iteration flag when it returns, so read() succeeds right after
\* it; after a seek, read() succeeds again.
C8_NextBlocksReadUntilSeekOrReadlines ==
  [][\A h \in Handles :
       (IsOpen(h) /\ files[h].mode \in ReadCapable /\ ret'.h = h)
       => /\ (ret'.op = "next" /\ ret'.err \in {"none", "StopIteration"})
             => ReadFails(h)'
          /\ (ReadFails(h) /\ IsHandle(h)' /\ ~(ret'.op \in {"seek", "readlines"} /\ ret'.err = "none"))
             => ReadFails(h)'
          /\ (ret'.op \in {"seek", "readlines"} /\ ret'.err = "none" /\ IsOpen(h)')
             => ReadSucceeds(h)']_vars

\* C8 witness: a __next__ call has returned a line and the handle is in
\* iteration
C8_Witness ==
  /\ ret.op = "next" /\ ret.err = "none" /\ ret.val = <<NUL, LF>>
  /\ IsOpen(ret.h) /\ files[ret.h].in_iter /\ ReadFails(ret.h)

----------------------------------------------------------------------------
\* C9: opening a name with content C in an append mode leaves the store as
\* it is and puts the cursor at len(C) as the handle sees C; writing D and
\* closing makes a fresh read open return C followed by D; an absent name
\* gets an empty entry and the cursor 0.
C9_AppendSemantics ==
  /\ (pc = "writing" /\ ret.op = "open" /\ StartsWithA(files[Writer].mode))
     => /\ files[Writer].position = Len(seen)
        /\ seen = IF files[Writer].binary THEN _store["f"] ELSE ReplaceCRLF(_store["f"])
  /\ (pc = "done" /\ StartsWithA(files[Writer].mode) /\ text # << >>)
     => (ret.op = "read" /\ ret.err = "none" /\ ret.val = seen \o text)

----------------------------------------------------------------------------
\* the unit at 1-based place i of the content after write(d) at cursor p
\* on content c
UnitAfterWrite(c, p, d, i) ==
  IF i <= Min(p, Len(c)) THEN c[i]
  ELSE IF i <= p THEN NUL
  ELSE IF i <= p + Len(d) THEN d[i - p]
  ELSE c[i]

\* C10: write(data) with non-empty data at cursor p on content c of length
\* n yields c[0:min(p,n)], then p-n nulls if p > n, then d, then
\* c[p+len(d):], d being data with every LF made CRLF in text mode, and
\* moves the cursor to p + len(d); write of empty data changes nothing.
C10_WriteSplices ==
  \A h \in Handles : \A data \in WriteInputs :
    (IsOpen(h) /\ files[h].mode \in WriteCapable) =>
      LET c == files[h].data
          p == files[h].position
          d == IF files[h].mode[Len(files[h].mode)] = "b" THEN data ELSE ReplaceLF(data)
          len == IF p + Len(d) > Len(c) THEN p + Len(d) ELSE Len(c)
          r == write(files[h], _store, data)
      IN /\ r.err = "none"
         /\ r.st = _store
         /\ data = << >> => r.self = files[h]
         /\ data # << >> =>
              /\ r.self.data = [i \in 1 .. len |-> UnitAfterWrite(c, p, d, i)]
              /\ r.self.position = p + Len(d)
              /\ r.self = [files[h] EXCEPT !.data = r.self.data,
                                           !.position = r.self.position]

\* C10 witness: a write past the end has padded the gap with a null
C10_Witness ==
  /\ ret.op = "write" /\ ret.err = "none" /\ IsOpen(ret.h)
  /\ files[ret.h].data = <<NUL, LF>> /\ files[ret.h].position = 2

----------------------------------------------------------------------------
TruncatingTokens == { <<"w">>, <<"w", "b">>, <<"w", "+">>, <<"w", "+", "b">> }
TableTokens == TwelveTokens \cup { <<"r", "U">> }

\* C11: opening a name with w, wb, w+ or w+b succeeds and sets the store
\* entry of the name to empty at the open call, whatever it held before;
\* the handle starts empty at cursor 0, and a handle opened on the name
\* next, in any mode, loads empty content.
C11_WriteOpenEmptiesEntry ==
  /\ [](\A mode \in TruncatingTokens :
          LET r == __init__("f", mode, _store)
          IN r.err = "none" /\ r.st["f"] = << >>)
  /\ [][\A h \in Handles :
          (files[h].live = "none" /\ ret'.op = "open" /\ ret'.h = h
             /\ files'[h].name = "f" /\ files'[h].mode \in TruncatingTokens)
          => /\ ret'.err = "none" /\ IsOpen(h)'
             /\ _store'["f"] = << >>
             /\ files'[h].data = << >> /\ files'[h].position = 0
             /\ \A mode \in TableTokens :
                  LET r == __init__("f", mode, _store')
                  IN r.err = "none" /\ r.self.data = << >> /\ r.st["f"] = << >>]_vars

\* C11 witness: a handle has just been opened with w+b on a name and has
\* not been written, flushed or closed; the entry of the name is empty
C11_Witness ==
  /\ ret.op = "open" /\ ret.err = "none" /\ IsOpen(ret.h)
  /\ files[ret.h].mode = <<"w", "+", "b">> /\ files[ret.h].name = "f"
  /\ _store["f"] = << >>

----------------------------------------------------------------------------
\* C12: whenever truncate(size) succeeds, size is omitted (meaning the
\* cursor) or explicit and non-negative, the content afterwards has length
\* exactly size and is the first min(size, old length) units of the old
\* content followed by nulls, the store entry of the name equals that
\* content when the call returns, and the cursor and the rest of the handle
\* are unchanged.
C12_TruncateResizesAndCommits ==
  \A h \in Handles : \A size \in SizeInputs :
    IsHandle(h) =>
      LET r == truncate(files[h], _store, size)
          c == files[h].data
          n == IF size = DEFAULT THEN files[h].position ELSE size[1]
      IN r.err = "none" =>
           /\ n >= 0
           /\ Len(r.self.data) = n
           /\ \A i \in 1 .. n : r.self.data[i] = IF i <= Len(c) THEN c[i] ELSE NUL
           /\ r.st = [_store EXCEPT ![files[h].name] = r.self.data]
           /\ r.self = [files[h] EXCEPT !.data = r.self.data]

\* C12 witness: a truncate has grown the content LF to two units, the
\* second a null, and the store holds the grown content; the cursor stayed
C12_Witness ==
  /\ ret.op = "truncate" /\ ret.err = "none" /\ IsOpen(ret.h)
  /\ files[ret.h].data = <<LF, NUL>> /\ files[ret.h].position = 1
  /\ _store[files[ret.h].name] = <<LF, NUL>>

----------------------------------------------------------------------------
\* the cursor of the handle in slot h is beyond the end of its content
Beyond(h) == IsHandle(h) /\ files[h].position > Len(files[h].data)

\* C13: the cursor exceeds len(content) only after a seek past the end of
\* the content not yet followed by a write or a truncate; after any write
\* and after any truncate the cursor is at most len(content).
C13_BeyondEndOnlyAfterSeek ==
  /\ []((ret.op \in {"write", "truncate"} /\ ret.err = "none") => ~Beyond(ret.h))
  /\ [][\A h \in Handles :
          Beyond(h)' => \/ Beyond(h)
                        \/ ret'.op = "seek" /\ ret'.h = h /\ ret'.err = "none"]_vars

\* C13 (amended): the cursor comes to exceed len(content) only by a seek
\* past the end or by a truncate to a size below the cursor; a write of
\* non-empty data and a truncate to the cursor or above leave the cursor at
\* most len(content), while a write of empty data changes nothing and a
\* truncate below the cursor leaves the cursor beyond the end.
C13_BeyondEndAfterSeekOrTruncate ==
  /\ [](\A h \in Handles : IsHandle(h) =>
          /\ \A data \in WriteInputs :
               LET r == write(files[h], _store, data)
               IN r.err = "none" =>
                    IF data = << >> THEN r.self = files[h]
                    ELSE r.self.position <= Len(r.self.data)
          /\ \A size \in SizeInputs :
               LET r == truncate(files[h], _store, size)
                   n == IF size = DEFAULT THEN files[h].position ELSE size[1]
               IN r.err = "none" =>
                    /\ r.self.position = files[h].position
                    /\ (r.self.position > Len(r.self.data)) <=> (n < files[h].position))
  /\ [][\A h \in Handles :
          Beyond(h)' => \/ Beyond(h)
                        \/ /\ ret'.op \in {"seek", "truncate"}
                           /\ ret'.h = h /\ ret'.err = "none"]_vars

\* C13 witness: a truncate to a size below the cursor has returned and the
\* cursor is beyond the end of the content
C13_Witness ==
  /\ ret.op = "truncate" /\ ret.err = "none" /\ Beyond(ret.h)
  /\ files[ret.h].data = << >> /\ files[ret.h].position = 1

----------------------------------------------------------------------------
\* C14: on a handle, read, write, writelines, seek, tell, readline, line
\* iteration and readlines never change the store; the store changes only
\* at an open with a write-capable mode other than r+ and r+b, at a flush or
\* truncate of a write-capable object and at the first close (by close() or
\* by destruction) of a write-capable object; no call on a handle opened
\* with r or rb, its close and its destruction included, changes the store.
C14_StoreChangesOnlyAtCommits ==
  [][\A h \in Handles : ret'.h = h =>
       /\ (IsHandle(h) /\ ret'.op \in {"read", "write", "writelines", "seek", "tell",
                                       "readline", "next", "readlines"})
          => _store' = _store
       /\ _store' # _store
          => \/ /\ ret'.op = "open" /\ ret'.err = "none"
                /\ files'[h].mode \in WriteCapable \ { <<"r", "+">>, <<"r", "+", "b">> }
             \/ /\ ret'.op \in {"flush", "truncate"} /\ ret'.err = "none"
                /\ files[h].mode \in WriteCapable
             \/ /\ ret'.op \in {"close", "del"}
                /\ ~files[h].closed /\ files[h].mode \in WriteCapable
       /\ (IsHandle(h) /\ files[h].mode \in { <<"r">>, <<"r", "b">> })
          => _store' = _store]_vars

\* C14 witness: a handle opened with r has been closed while its content,
\* the loaded text, differs from the stored CRLF form, which is still there
C14_Witness ==
  /\ ret.op = "close" /\ IsHandle(ret.h) /\ files[ret.h].closed
  /\ files[ret.h].mode = <<"r">> /\ files[ret.h].data = <<LF>>
  /\ _store[files[ret.h].name] = <<CR, LF>>

----------------------------------------------------------------------------
\* C15: read on an open handle whose mode is not write-capable (r, rb)
\* reloads the content from the store exactly when the cursor is 0 at the
\* call, and then returns what the store holds now (CRLF read as LF in text
\* mode); with the cursor above 0 it reads the copy the handle holds,
\* whatever the store holds; a mixed-mode handle never reloads.  No read
\* changes the store.
C15_ReadReloadsAtCursorZero ==
  \A h \in Handles : \A size \in SizeInputs :
    (IsOpen(h) /\ ~files[h].in_iter /\ files[h].mode \in ReadCapable
       /\ _store[files[h].name] # NoFile) =>
      LET r == read(files[h], _store, size)
          p == files[h].position
          stored == IF files[h].mode[Len(files[h].mode)] = "b"
                    THEN _store[files[h].name]
                    ELSE ReplaceCRLF(_store[files[h].name])
          content == IF files[h].mode \notin WriteCapable /\ p = 0
                     THEN stored ELSE files[h].data
          n == IF size = DEFAULT THEN Len(content)
               ELSE IF size[1] < 0 THEN Len(content) ELSE size[1]
      IN /\ r.err = "none" /\ r.st = _store
         /\ r.self.data = content
         /\ r.val = [i \in 1 .. Min(n, IF Len(content) > p THEN Len(content) - p ELSE 0)
                       |-> content[p + i]]
         /\ r.self.position = p + Len(r.val)

\* C15 witness: a read on an r handle has returned the unit that a w handle,
\* still open, wrote and committed by a flush
C15_Witness ==
  /\ ret.op = "read" /\ ret.err = "none" /\ ret.val = <<"a">>
  /\ IsOpen(ret.h) /\ files[ret.h].mode = <<"r">>
  /\ \E g \in Handles \ {ret.h} :
       IsOpen(g) /\ files[g].mode = <<"w">> /\ files[g].data = <<"a">>

----------------------------------------------------------------------------
\* the modes on which readline, __next__ and readlines are permitted
LineTokens == TableTokens \ WriteCapable

\* number of units of content c from cursor p up to and including the next
\* LF, or up to the end when there is none; 0 at or past the end
LineLength(c, p) ==
  IF p >= Len(c) THEN 0
  ELSE IF \E k \in (p + 1) .. Len(c) : c[k] = LF
  THEN (CHOOSE k \in (p + 1) .. Len(c) :
          c[k] = LF /\ \A j \in (p + 1) .. (k - 1) : c[j] # LF) - p
  ELSE Len(c) - p

\* the handle readline runs on in the example of C16
ExampleHandle(p) ==
  [live |-> "ok", name |-> "f", mode |-> <<"r">>, position |-> p, closed |-> FALSE,
   binary |-> FALSE, data |-> <<"a", "b", LF, "c", "d">>, in_iter |-> FALSE]

\* C16: readline on a handle where it is permitted returns, from cursor p,
\* the content up to and including the next LF, or the rest of the content
\* when there is none, cut to at most size units when a non-negative size
\* is given, and advances the cursor by the length of what it returned; at
\* or past the end it returns the empty result without error and leaves the
\* cursor unchanged.  Content "ab\ncd" gives "ab\n" with cursor 3, then
\* "cd", then the empty result.
C16_ReadlineReturnsNextLine ==
  /\ \A h \in Handles : \A size \in SizeInputs :
       (IsHandle(h) /\ files[h].mode \in LineTokens) =>
         LET r == readline(files[h], _store, size)
             c == files[h].data
             p == files[h].position
             whole == LineLength(c, p)
             n == IF size = DEFAULT THEN whole
                  ELSE IF size[1] < 0 THEN whole ELSE Min(size[1], whole)
         IN /\ r.err = "none" /\ r.st = _store
            /\ r.val = [i \in 1 .. n |-> c[p + i]]
            /\ r.self = [files[h] EXCEPT !.position = p + n]
  /\ LET first == readline(ExampleHandle(0), _store, DEFAULT)
         second == readline(first.self, _store, DEFAULT)
         third == readline(second.self, _store, DEFAULT)
     IN /\ first.val = <<"a", "b", LF>> /\ first.self.position = 3
        /\ second.val = <<"c", "d">> /\ second.self.position = 5
        /\ third.val = << >> /\ third.err = "none" /\ third.self.position = 5

\* C16 witness: readline on an rb handle has returned the line LF of the
\* content LF NUL and left the cursor behind the LF
C16_Witness ==
  /\ ret.op = "readline" /\ ret.err = "none" /\ ret.val = <<LF>>
  /\ IsOpen(ret.h) /\ files[ret.h].mode = <<"r", "b">>
  /\ files[ret.h].data = <<LF, NUL>> /\ files[ret.h].position = 1

----------------------------------------------------------------------------
\* C17: the cursor is never negative.  seek(offset, whence) has the target
\* offset for whence 0, cursor + offset for whence 1 and len(content) +
\* offset for whence 2; a target >= 0 becomes the cursor, also beyond the
\* end, with the content unchanged and the iteration flag cleared; a
\* negative target or a whence outside 0..2 makes the call fail and leaves
\* cursor, content and iteration flag as they were.
C17_SeekTargets ==
  \A h \in Handles :
    /\ files[h].position >= 0
    /\ IsHandle(h) =>
         \A offset \in OffsetInputs : \A whence \in WhenceInputs :
           LET r == seek(files[h], _store, offset, whence)
               target == CASE whence = 0 -> offset
                           [] whence = 1 -> files[h].position + offset
                           [] whence = 2 -> Len(files[h].data) + offset
                           [] OTHER -> -1
           IN /\ r.st = _store
              /\ IF target >= 0
                 THEN /\ r.err = "none"
                      /\ r.self = [files[h] EXCEPT !.position = target,
                                                   !.in_iter = FALSE]
                 ELSE r.err = "IOError: Invalid argument" /\ r.self = files[h]

\* C17 witness: a seek has put the cursor beyond the end of the content
C17_Witness ==
  /\ ret.op = "seek" /\ ret.err = "none" /\ IsOpen(ret.h)
  /\ files[ret.h].data = <<LF>> /\ files[ret.h].position = 2
  /\ ~files[ret.h].in_iter

----------------------------------------------------------------------------
\* C18: a failed open neither creates nor changes a store entry, at the
\* failing call or later when the object it left behind is destroyed: after
\* a failed open of an absent name with r+ or r+b, or of the empty name
\* with a write-capable mode, and the destruction of the object, the name
\* is still absent from the store.
C18_FailedOpenLeavesStore ==
  [][\A h \in Handles : ret'.h = h =>
       /\ (ret'.op = "open" /\ ret'.err # "none") => _store' = _store
       /\ (files[h].live = "failed" /\ ret'.op = "del") => _store' = _store]_vars

----------------------------------------------------------------------------
RECURSIVE Concat(_)
\* the concatenation of a sequence of lines
Concat(lines) == IF lines = << >> THEN << >> ELSE Head(lines) \o Concat(Tail(lines))

\* C19: on a handle where iteration is permitted, __next__ signals
\* exhaustion exactly when the cursor is at or past the end of the content,
\* and otherwise returns a non-empty line and moves the cursor forward, not
\* beyond the end; readlines returns non-empty lines whose concatenation is
\* the content from the starting cursor to the end, with the cursor at the
\* end of the content when it started within it.
C19_IterationTerminates ==
  \A h \in Handles :
    (IsHandle(h) /\ files[h].mode \in LineTokens) =>
      LET c == files[h].data
          p == files[h].position
          n == next(files[h], _store)
      IN /\ n.err \in {"none", "StopIteration"}
         /\ n.err = "StopIteration" <=> p >= Len(c)
         /\ n.err = "none" =>
              /\ n.val # << >>
              /\ p < n.self.position /\ n.self.position <= Len(c)
              /\ n.self.position = p + Len(n.val)
         /\ n.self.data = c /\ n.st = _store
         /\ \A size \in SizeInputs :
              LET rl == readlines(files[h], _store, size)
              IN /\ rl.err = "none" /\ rl.st = _store
                 /\ \A i \in 1 .. Len(rl.val) : rl.val[i] # << >>
                 /\ Concat(rl.val) = [i \in 1 .. (IF Len(c) > p THEN Len(c) - p ELSE 0)
                                        |-> c[p + i]]
                 /\ rl.self.data = c
                 /\ rl.self.position = IF p <= Len(c) THEN Len(c) ELSE p

\* C19 witness: readlines has returned the two lines of the content LF NUL
\* and the cursor is at the end
C19_Witness ==
  /\ ret.op = "readlines" /\ ret.err = "none" /\ IsOpen(ret.h)
  /\ ret.val = << <<LF>>, <<NUL>> >>
  /\ files[ret.h].data = <<LF, NUL>> /\ files[ret.h].position = 2

----------------------------------------------------------------------------
\* C20: on a handle opened with w+, r+ or a+, after write(T), seek(0) and
\* read(), the text returned equals what a fresh open with r returns once
\* this handle is closed, and each write(T) advances the cursor by len(T).
C20_ReadBackAgreesWithFreshOpen ==
  /\ []((pc = "writing" /\ ret.op = "write"
           /\ files[Writer].mode \in { <<"w", "+">>, <<"r", "+">>, <<"a", "+">> })
        => LET rewound == seek(files[Writer], _store, 0, 0)
               own == read(rewound.self, rewound.st, DEFAULT)
               closed == close(own.self, own.st)
               reader == __init__("f", <<"r">>, closed.st)
               fresh == read(reader.self, reader.st, DEFAULT)
           IN /\ own.err = "none" /\ fresh.err = "none"
              /\ own.val = fresh.val)
  /\ [][(pc = "writing" /\ pc' = "writing"
           /\ files[Writer].mode \in { <<"w", "+">>, <<"r", "+">>, <<"a", "+">> })
        => files'[Writer].position - files[Writer].position = Len(text') - Len(text)]_vars

====
